---- MODULE Spec2Model ----
(***************************************************************************)
(* ffmpeg-converter: the Lambda handler of src/index.js that fetches one   *)
(* uploaded video, encodes it through a fixed three-profile HLS ladder     *)
(* with an external encoder, writes a master playlist, uploads every       *)
(* output file and publishes a completion message.                         *)
(*                                                                         *)
(* A JavaScript string is modelled as a sequence of one-character strings, *)
(* so that the regular expressions, path functions and template literals   *)
(* of the handler are computed character by character.                     *)
(***************************************************************************)
EXTENDS Integers, Sequences, FiniteSets, TLC

\* ------------------------------------------------------------ bounds

\* Longest filename the sanitizer specification draws.
MaxLen == 4
\* Invocations one execution environment (one warm container) serves.
MaxInvocations == 2
\* Longest source video, in HLS segments (the encoder cuts every rendition
\* of one input at the same four-second boundaries).
MaxSegs == 1

\* ------------------------------------------------------- characters

Lower == {"a", "b", "c", "d", "e", "f", "g", "h", "i", "j", "k", "l", "m",
          "n", "o", "p", "q", "r", "s", "t", "u", "v", "w", "x", "y", "z"}
Upper == {"A", "B", "C", "D", "E", "F", "G", "H", "I", "J", "K", "L", "M",
          "N", "O", "P", "Q", "R", "S", "T", "U", "V", "W", "X", "Y", "Z"}
Digit == {"0", "1", "2", "3", "4", "5", "6", "7", "8", "9"}

\* The character class [A-Za-z0-9._] of the sanitizer's first regular
\* expression (its complement is what gets replaced).
AllowedChar == Lower \cup Upper \cup Digit \cup {".", "_"}

\* The printable ASCII characters 0x20..0x7E in code order: what one
\* percent-escape %XX of that range decodes to. (The grave accent, 0x60, is
\* written GRAVE: the TLA+ lexer does not take it in a string.)
AsciiPrintable ==
    <<" ", "!", "\"", "#", "$", "%", "&", "'", "(", ")", "*", "+", ",", "-", ".", "/",
      "0", "1", "2", "3", "4", "5", "6", "7", "8", "9", ":", ";", "<", "=", ">", "?",
      "@", "A", "B", "C", "D", "E", "F", "G", "H", "I", "J", "K", "L", "M", "N", "O",
      "P", "Q", "R", "S", "T", "U", "V", "W", "X", "Y", "Z", "[", "\\", "]", "^", "_",
      "GRAVE", "a", "b", "c", "d", "e", "f", "g", "h", "i", "j", "k", "l", "m", "n", "o",
      "p", "q", "r", "s", "t", "u", "v", "w", "x", "y", "z", "{", "|", "}", "~">>

HexDigits == <<"0", "1", "2", "3", "4", "5", "6", "7", "8", "9",
               "A", "B", "C", "D", "E", "F">>
HexLower == <<"0", "1", "2", "3", "4", "5", "6", "7", "8", "9",
              "a", "b", "c", "d", "e", "f">>

IsHex(c) == \E n \in 1..16 : HexDigits[n] = c \/ HexLower[n] = c
HexVal(c) == (CHOOSE n \in 1..16 : HexDigits[n] = c \/ HexLower[n] = c) - 1

\* --------------------------------------------------- string helpers

\* Index of the last occurrence of character c in s, 0 if none.
LastIndexOf(s, c) ==
    IF \E n \in 1..Len(s) : s[n] = c
        THEN CHOOSE n \in 1..Len(s) : s[n] = c /\ \A m \in (n + 1)..Len(s) : s[m] # c
        ELSE 0

\* String.prototype.split(c): the pieces of s between occurrences of c.
\* Cut(k) is the position of the k-th occurrence of c, with 0 before the
\* first piece and Len(s) + 1 after the last.
Split(s, c) ==
    LET seps == {n \in 1..Len(s) : s[n] = c}
        Cut(k) == IF k = 0 THEN 0
                  ELSE IF k > Cardinality(seps) THEN Len(s) + 1
                  ELSE CHOOSE p \in seps : Cardinality({q \in seps : q < p}) = k - 1
    IN  [k \in 1..(Cardinality(seps) + 1) |-> SubSeq(s, Cut(k - 1) + 1, Cut(k) - 1)]

RECURSIVE Join(_, _)
\* Array.prototype.join(sep).
Join(ss, sep) ==
    IF ss = <<>> THEN <<>>
    ELSE IF Len(ss) = 1 THEN ss[1]
    ELSE ss[1] \o sep \o Join(Tail(ss), sep)

EndsWith(s, suffix) ==
    /\ Len(suffix) <= Len(s)
    /\ SubSeq(s, Len(s) - Len(suffix) + 1, Len(s)) = suffix

StartsWith(s, prefix) ==
    /\ Len(prefix) <= Len(s)
    /\ SubSeq(s, 1, Len(prefix)) = prefix

RECURSIVE DigitsOf(_)
\* The decimal digits of a natural number, as a template literal prints it.
DigitsOf(n) ==
    IF n < 10 THEN <<HexDigits[n + 1]>>
    ELSE DigitsOf(n \div 10) \o <<HexDigits[(n % 10) + 1]>>

RECURSIVE parseIntFrom(_, _, _)
\* parseInt's digit loop: the value of the longest run of decimal digits of
\* s starting at index n, given the value acc read so far.
parseIntFrom(s, n, acc) ==
    IF n <= Len(s) /\ s[n] \in Digit
        THEN parseIntFrom(s, n + 1, 10 * acc + HexVal(s[n]))
        ELSE acc

\* parseInt(s, 10) of a string that starts with a digit (as every bitrate
\* of the ladder does): the number its leading digits spell.
parseInt(s) == parseIntFrom(s, 1, 0)

\* ------------------------------------------------ sanitizeFilename

RECURSIVE ReplaceDisallowedRuns(_)
\* .replace(/[^A-Za-z0-9._]+/g, "-"): every maximal run of characters
\* outside the class becomes one hyphen.
ReplaceDisallowedRuns(s) ==
    IF s = <<>> THEN <<>>
    ELSE IF Head(s) \in AllowedChar THEN <<Head(s)>> \o ReplaceDisallowedRuns(Tail(s))
    ELSE LET rest == Tail(s)
             stop == IF \E n \in 1..Len(rest) : rest[n] \in AllowedChar
                        THEN CHOOSE n \in 1..Len(rest) :
                                 /\ rest[n] \in AllowedChar
                                 /\ \A m \in 1..(n - 1) : rest[m] \notin AllowedChar
                        ELSE Len(rest) + 1
         IN  <<"-">> \o ReplaceDisallowedRuns(SubSeq(rest, stop, Len(rest)))

RECURSIVE CollapseHyphens(_)
\* .replace(/-+/g, "-"): every run of hyphens becomes one hyphen.
CollapseHyphens(s) ==
    IF Len(s) < 2 THEN s
    ELSE IF s[1] = "-" /\ s[2] = "-" THEN CollapseHyphens(Tail(s))
    ELSE <<s[1]>> \o CollapseHyphens(Tail(s))

\* Whether /^-|-$|_$/ matches the one character at index n of s.
TrimMatches(s, n) ==
    \/ n = 1 /\ s[n] = "-"
    \/ n = Len(s) /\ s[n] = "-"
    \/ n = Len(s) /\ s[n] = "_"

\* .replace(/^-|-$|_$/g, ""): a global replace deletes every match; each
\* match is one character, at the first or at the last index.
TrimEnds(s) ==
    LET keep == {n \in 1..Len(s) : ~TrimMatches(s, n)}
        lo == IF 1 \in keep THEN 1 ELSE 2
        hi == IF Len(s) \in keep THEN Len(s) ELSE Len(s) - 1
    IN  SubSeq(s, lo, hi)

\* sanitizeFilename without its third replace.
sanitizeFilenameNoTrim(filename) ==
    CollapseHyphens(ReplaceDisallowedRuns(filename))

sanitizeFilename(filename) ==
    TrimEnds(CollapseHyphens(ReplaceDisallowedRuns(filename)))

\* ------------------------------------------------- key decoding

\* .replace(/\+/g, " ")
PlusToSpace(s) == [n \in 1..Len(s) |-> IF s[n] = "+" THEN " " ELSE s[n]]

\* What decodeURIComponent throws on a malformed escape.
URIError == [ok |-> FALSE, value |-> <<>>]

RECURSIVE decodeURIComponent(_)
\* decodeURIComponent: [ok, value]; ok is FALSE where the function throws
\* URIError. An escape %XX of 0x20..0x7E decodes to its ASCII character.
\* A control code (below 0x20, or 0x7F) decodes to a control character,
\* written CTL. An escape of 0x80 and above starts a UTF-8 sequence; the
\* keys drawn here hold no complete one, and a lone one throws.
decodeURIComponent(s) ==
    IF s = <<>> THEN [ok |-> TRUE, value |-> <<>>]
    ELSE IF Head(s) # "%"
        THEN LET rest == decodeURIComponent(Tail(s))
             IN  IF rest.ok THEN [ok |-> TRUE, value |-> <<Head(s)>> \o rest.value]
                 ELSE URIError
    ELSE IF Len(s) >= 3 /\ IsHex(s[2]) /\ IsHex(s[3])
        THEN LET code == 16 * HexVal(s[2]) + HexVal(s[3])
                 rest == decodeURIComponent(SubSeq(s, 4, Len(s)))
                 char == IF code \in 32..126 THEN AsciiPrintable[code - 31] ELSE "CTL"
             IN  IF code >= 128 \/ ~rest.ok THEN URIError
                 ELSE [ok |-> TRUE, value |-> <<char>> \o rest.value]
    ELSE URIError

\* ------------------------------------------------- key validation

SourceSlash == <<"s", "o", "u", "r", "c", "e", "/">>

NoSlash(s) == \A n \in 1..Len(s) : s[n] # "/"

\* The pattern with ".+" for the filename and the extension, which lets
\* slashes into them: /^source\/[^/]+\/.+\..+$/.
sourceKeyPatternTestAnySlash(s) ==
    /\ StartsWith(s, SourceSlash)
    /\ \E slash \in 9..Len(s) : \E dot \in (slash + 2)..(Len(s) - 1) :
        /\ s[slash] = "/"
        /\ s[dot] = "."
        /\ NoSlash(SubSeq(s, 8, slash - 1))

\* /^source\/[^/]+\/[^/]+\.[^/]+$/.test(s): s is "source/", a non-empty
\* slash-free run, "/", a non-empty slash-free run, ".", and a non-empty
\* slash-free run up to the end of the string. slash is the index of the
\* second "/", dot the index of the "." the match takes.
sourceKeyPatternTest(s) ==
    /\ StartsWith(s, SourceSlash)
    /\ \E slash \in 9..Len(s) : \E dot \in (slash + 2)..(Len(s) - 1) :
        /\ s[slash] = "/"
        /\ s[dot] = "."
        /\ NoSlash(SubSeq(s, 8, slash - 1))
        /\ NoSlash(SubSeq(s, slash + 1, dot - 1))
        /\ NoSlash(SubSeq(s, dot + 1, Len(s)))

\* ---------------------------------------------------- path (posix)

RECURSIVE NormalizeSegments(_, _, _)
\* The loop of path.normalize over the pieces between slashes: empty
\* pieces and "." are dropped, ".." removes the piece before it (and is
\* kept at the front of a relative path, where there is none to remove).
NormalizeSegments(segs, acc, absolute) ==
    IF segs = <<>> THEN acc
    ELSE LET seg == Head(segs)
             next == IF seg = <<>> \/ seg = <<".">> THEN acc
                     ELSE IF seg = <<".", ".">>
                         THEN IF acc # <<>> /\ acc[Len(acc)] # <<".", ".">>
                                  THEN SubSeq(acc, 1, Len(acc) - 1)
                              ELSE IF absolute THEN acc
                              ELSE Append(acc, seg)
                     ELSE Append(acc, seg)
         IN  NormalizeSegments(Tail(segs), next, absolute)

\* path.normalize(p) for a non-empty p.
pathNormalize(p) ==
    LET absolute == p[1] = "/"
        trailing == p[Len(p)] = "/"
        body == Join(NormalizeSegments(Split(p, "/"), <<>>, absolute), <<"/">>)
        tail == IF body # <<>> /\ trailing THEN body \o <<"/">> ELSE body
    IN  IF absolute THEN <<"/">> \o tail
        ELSE IF body = <<>> THEN (IF trailing THEN <<".", "/">> ELSE <<".">>)
        ELSE tail

\* path.join(a, b): the non-empty arguments joined by "/" and normalized.
pathJoin(a, b) ==
    IF a = <<>> /\ b = <<>> THEN <<".">>
    ELSE IF a = <<>> THEN pathNormalize(b)
    ELSE IF b = <<>> THEN pathNormalize(a)
    ELSE pathNormalize(a \o <<"/">> \o b)

RECURSIVE StripTrailingSlashes(_)
StripTrailingSlashes(p) ==
    IF p # <<>> /\ p[Len(p)] = "/" THEN StripTrailingSlashes(SubSeq(p, 1, Len(p) - 1))
    ELSE p

\* The last component of p: what path.basename(p) returns.
LastComponent(p) ==
    LET q == StripTrailingSlashes(p)
    IN  SubSeq(q, LastIndexOf(q, "/") + 1, Len(q))

\* path.extname(p): from the last "." of the last component, or "" when
\* there is none, when it is the component's first character, or when the
\* component is "..".
pathExtname(p) ==
    LET base == LastComponent(p)
        dot == LastIndexOf(base, ".")
    IN  IF dot <= 1 \/ base = <<".", ".">> THEN <<>>
        ELSE SubSeq(base, dot, Len(base))

\* path.basename(p, ext): the last component, without ext when it ends
\* with ext and is more than ext.
pathBasename(p, ext) ==
    LET base == LastComponent(p)
    IN  IF ext = <<>> \/ Len(ext) > Len(p) THEN base
        ELSE IF ext = p THEN <<>>
        ELSE IF EndsWith(base, ext) /\ base # ext
            THEN SubSeq(base, 1, Len(base) - Len(ext))
        ELSE base

\* ------------------------------------------------------ constants

\* TEMP_OUTPUT_DIR
TEMP_OUTPUT_DIR == <<"/", "t", "m", "p", "/", "o", "u", "t", "p", "u", "t", "/">>

\* process.env.CLOUDFRONT_URL: one configured public base URL.
CLOUDFRONT_URL == <<"h", "t", "t", "p", "s", ":", "/", "/", "c", "d", "n">>

\* The fixed ladder of the handler.
resolutions ==
    << [name |-> <<"1", "0", "8", "0", "p">>, width |-> 1920, height |-> 1080,
        bitrate |-> <<"5", "0", "0", "0", "k">>],
       [name |-> <<"7", "2", "0", "p">>, width |-> 1280, height |-> 720,
        bitrate |-> <<"3", "0", "0", "0", "k">>],
       [name |-> <<"4", "8", "0", "p">>, width |-> 854, height |-> 480,
        bitrate |-> <<"1", "5", "0", "0", "k">>] >>

DotM3u8 == <<".", "m", "3", "u", "8">>
MasterName == <<"m", "a", "s", "t", "e", "r", ".", "m", "3", "u", "8">>

\* The local path of a rendition's playlist: path.join(TEMP_OUTPUT_DIR, `${res.name}.m3u8`).
PlaylistPath(res) == pathJoin(TEMP_OUTPUT_DIR, res.name \o DotM3u8)

\* The entry the loop pushes for a profile before it runs the encoder.
PlaylistEntry(res) ==
    [name |-> res.name, bitrate |-> res.bitrate, playlist |-> PlaylistPath(res)]

\* The name ffmpeg gives segment n of a rendition: `${res.name}_%03d.ts`.
SegmentName(res, n) ==
    LET d == DigitsOf(n)
        pad == IF Len(d) = 1 THEN <<"0", "0">> ELSE IF Len(d) = 2 THEN <<"0">> ELSE <<>>
    IN  res.name \o <<"_">> \o pad \o d \o <<".", "t", "s">>

\* ---------------------------------------------- master playlist

\* `${obj.field}` in a template literal: the number's digits, or the text
\* "undefined" when the object has no such property.
PropertyText(obj, field) ==
    IF field \in DOMAIN obj THEN DigitsOf(obj[field])
    ELSE <<"u", "n", "d", "e", "f", "i", "n", "e", "d">>

StreamInfPrefix ==
    <<"#", "E", "X", "T", "-", "X", "-", "S", "T", "R", "E", "A", "M", "-", "I", "N", "F",
      ":", "B", "A", "N", "D", "W", "I", "D", "T", "H", "=">>
ResolutionKey == <<",", "R", "E", "S", "O", "L", "U", "T", "I", "O", "N", "=">>
MasterHeader ==
    <<"#", "E", "X", "T", "M", "3", "U", "\n",
      "#", "E", "X", "T", "-", "X", "-", "V", "E", "R", "S", "I", "O", "N", ":", "3", "\n">>

\* The entry written with the playlist's full local path instead of its
\* basename.
StreamInfEntryFullPath(res) ==
    StreamInfPrefix \o DigitsOf(parseInt(res.bitrate) * 1000)
        \o ResolutionKey \o PropertyText(res, "width") \o <<"x">> \o PropertyText(res, "height")
        \o <<"\n">> \o res.playlist

\* The two lines the map callback returns for one entry of playlists.
StreamInfEntry(res) ==
    StreamInfPrefix \o DigitsOf(parseInt(res.bitrate) * 1000)
        \o ResolutionKey \o PropertyText(res, "width") \o <<"x">> \o PropertyText(res, "height")
        \o <<"\n">> \o pathBasename(res.playlist, <<>>)

\* playlists.map(...).join("\n")
masterPlaylist(playlists) ==
    Join([n \in 1..Len(playlists) |-> StreamInfEntry(playlists[n])], <<"\n">>)

\* What the handler writes to master.m3u8.
MasterFileText(playlists) == MasterHeader \o masterPlaylist(playlists)

\* ------------------------------------------------------- the state

\* The invocation slots of one Node.js process. Lambda hands a process one
\* event at a time, so the sequential specification uses slot 1 only; a
\* second slot exists for handler calls that overlap at their awaits.
Invs == {1, 2}
SeqInvs == {1}

VARIABLES
    inv,            \* per slot: the locals and position of the handler call
    active,         \* the slot whose synchronous code is running, 0 if none
    nInvocations,   \* invocations this execution environment has started
    inputFile,      \* /tmp/input.mp4: 0 if absent, else the invocation that wrote it
    outDirExists,   \* whether /tmp/output/ exists
    outDirFiles,    \* the files of /tmp/output/: records [name, by, text]
    credFile,       \* whether /tmp/gcp_service_key.json exists
    probe           \* the sanitizer specification's input and results

vars == <<inv, active, nInvocations, inputFile, outDirExists, outDirFiles, credFile, probe>>
fsVars == <<inputFile, outDirExists, outDirFiles>>

NoError == [kind |-> "none", detail |-> 0]
Err(kind, detail) == [kind |-> kind, detail |-> detail]
NoResponse == [statusCode |-> 0, uniqueKey |-> <<>>, masterPlaylist |-> <<>>]

Terminal == {"returned", "threw", "aborted"}

\* The locals of a handler call that has not started.
InvInit ==
    [pc |-> "idle", gen |-> 0, rawKey |-> <<>>, sourceKey |-> <<>>, uniqueKey |-> <<>>,
     rawFilename |-> <<>>, baseFilename |-> <<>>, targetPrefix |-> <<>>,
     verdict |-> "none", fetchCalled |-> FALSE, videoSegs |-> 0,
     playlists |-> <<>>, encInputs |-> <<>>, encRunning |-> 0, encDone |-> 0,
     masterWritten |-> FALSE,
     listing |-> {}, files |-> {}, cur |-> <<>>, uploaded |-> {}, nUploads |-> 0,
     response |-> NoResponse, nPublished |-> 0, publishedMsg |-> NoResponse,
     error |-> NoError, cleanupRan |-> FALSE,
     thrown |-> NoError, result |-> NoResponse]

\* record.s3.object.key of the events the model delivers: the spec's
\* examples, percent- and plus-encoded names, names the sanitizer empties,
\* "." and ".." owners, a malformed escape and an escaped slash.
ExampleKeys ==
    {
      (* source/abc123/video.mp4 *)
      <<"s", "o", "u", "r", "c", "e", "/", "a", "b", "c", "1", "2", "3", "/", "v", "i", "d", "e", "o", ".", "m", "p", "4">>,
      (* source/abc123/sub/video.mp4 *)
      <<"s", "o", "u", "r", "c", "e", "/", "a", "b", "c", "1", "2", "3", "/", "s", "u", "b", "/", "v", "i", "d", "e", "o", ".", "m", "p", "4">>,
      (* source/video.mp4 *)
      <<"s", "o", "u", "r", "c", "e", "/", "v", "i", "d", "e", "o", ".", "m", "p", "4">>,
      (* source/u1/clip.mp4 *)
      <<"s", "o", "u", "r", "c", "e", "/", "u", "1", "/", "c", "l", "i", "p", ".", "m", "p", "4">>,
      (* source/u1/My+Video+%281%29.mp4 *)
      <<"s", "o", "u", "r", "c", "e", "/", "u", "1", "/", "M", "y", "+", "V", "i", "d", "e", "o", "+", "%", "2", "8", "1", "%", "2", "9", ".", "m", "p", "4">>,
      (* source/u1/__weird__name_.mov *)
      <<"s", "o", "u", "r", "c", "e", "/", "u", "1", "/", "_", "_", "w", "e", "i", "r", "d", "_", "_", "n", "a", "m", "e", "_", ".", "m", "o", "v">>,
      (* source/u1/a-_.mp4 *)
      <<"s", "o", "u", "r", "c", "e", "/", "u", "1", "/", "a", "-", "_", ".", "m", "p", "4">>,
      (* source/u1/-.mp4 *)
      <<"s", "o", "u", "r", "c", "e", "/", "u", "1", "/", "-", ".", "m", "p", "4">>,
      (* source/u1/... *)
      <<"s", "o", "u", "r", "c", "e", "/", "u", "1", "/", ".", ".", ".">>,
      (* source/../x.mp4 *)
      <<"s", "o", "u", "r", "c", "e", "/", ".", ".", "/", "x", ".", "m", "p", "4">>,
      (* source/u1/bad%zz.mp4 *)
      <<"s", "o", "u", "r", "c", "e", "/", "u", "1", "/", "b", "a", "d", "%", "z", "z", ".", "m", "p", "4">>,
      (* source/u1/a%2Fb.mp4 *)
      <<"s", "o", "u", "r", "c", "e", "/", "u", "1", "/", "a", "%", "2", "F", "b", ".", "m", "p", "4">>
    }

\* Keys built from pieces: a first piece, then up to three more, joined by "/".
GridFirst == {<<"s", "o", "u", "r", "c", "e">>, <<"s", "r", "c">>}
GridPiece == {<<>>, <<"a">>, <<".">>, <<"a", ".", "b">>}
GridKeys ==
    {Join(<<f>>, <<"/">>) : f \in GridFirst}
    \cup {Join(<<f, a>>, <<"/">>) : f \in GridFirst, a \in GridPiece}
    \cup {Join(<<f, a, b>>, <<"/">>) : f \in GridFirst, a \in GridPiece, b \in GridPiece}
    \cup {Join(<<f, a, b, c>>, <<"/">>) :
              f \in GridFirst, a \in GridPiece, b \in GridPiece, c \in GridPiece}

RawKeys == ExampleKeys \cup GridKeys

\* The keys of the events that follow the first one in an execution
\* environment: a few of RawKeys (a valid key, a valid key whose sanitized
\* name is empty, a key that is rejected).
LaterKeys ==
    { (* source/u1/clip.mp4 *)
      <<"s", "o", "u", "r", "c", "e", "/", "u", "1", "/", "c", "l", "i", "p", ".", "m", "p", "4">>,
      (* source/u1/-.mp4 *)
      <<"s", "o", "u", "r", "c", "e", "/", "u", "1", "/", "-", ".", "m", "p", "4">>,
      (* source/video.mp4 *)
      <<"s", "o", "u", "r", "c", "e", "/", "v", "i", "d", "e", "o", ".", "m", "p", "4">> }

\* The filenames the sanitizer specification draws: every string of up to
\* MaxLen characters over a letter, the hyphen, the underscore, the dot and
\* a disallowed character.
SanAlphabet == {"a", "-", "_", ".", " "}
SanInputs == UNION {[1..n -> SanAlphabet] : n \in 0..MaxLen}

ProbeInit == [pc |-> "idle", x |-> <<>>, once |-> <<>>, twice |-> <<>>]

HandlerInit ==
    /\ inv = [i \in Invs |-> InvInit]
    /\ active = 0
    /\ nInvocations = 0
    /\ inputFile = 0
    /\ outDirExists = FALSE
    /\ outDirFiles = {}
    /\ credFile = FALSE

Init == HandlerInit /\ probe = ProbeInit

\* ----------------------------------------------------- the handler
\* Node.js runs a handler call's synchronous code to its next await without
\* interleaving: `active` names the slot that is running; an await hands it
\* back, and a pending await resumes only when no slot is running.

\* The event arrives and the handler is called (line 62).
Invoke(i) ==
    /\ inv[i].pc = "idle"
    /\ active = 0
    /\ nInvocations < MaxInvocations
    /\ \E key \in (IF nInvocations = 0 THEN RawKeys ELSE LaterKeys) :
        inv' = [inv EXCEPT ![i] = [InvInit EXCEPT !.pc = "auth",
                                                  !.gen = nInvocations + 1,
                                                  !.rawKey = key]]
    /\ active' = i
    /\ nInvocations' = nInvocations + 1
    /\ UNCHANGED <<fsVars, credFile, probe>>

\* authenticateGCP(): the credential is decoded and written to its file, or
\* the variable is unset (or the write fails) and the error is thrown,
\* outside the handler's try.
Authenticate(i) ==
    /\ inv[i].pc = "auth"
    /\ active = i
    /\ \E ok \in BOOLEAN :
        IF ok
            THEN /\ credFile' = TRUE
                 /\ inv' = [inv EXCEPT ![i].pc = "validate"]
                 /\ active' = i
            ELSE /\ credFile' = credFile
                 /\ inv' = [inv EXCEPT ![i].pc = "threw",
                                       ![i].thrown = Err("AuthError", 0)]
                 /\ active' = 0
    /\ UNCHANGED <<fsVars, nInvocations, probe>>

\* A prefix that tells re-runs apart: from the second invocation of the
\* execution environment on, the run's number follows the base name.
TargetPrefixPerRun(uniqueKey, baseFilename) ==
    <<"h", "l", "s", "/">> \o uniqueKey \o <<"/">> \o baseFilename
        \o (IF nInvocations > 1 THEN <<"-">> \o DigitsOf(nInvocations) ELSE <<>>) \o <<"/">>

\* `hls/${uniqueKey}/${baseFilename}/`
TargetPrefix(uniqueKey, baseFilename) ==
    <<"h", "l", "s", "/">> \o uniqueKey \o <<"/">> \o baseFilename \o <<"/">>

\* The handler with the pattern test moved after the fetch: getObject is
\* called for every key that decodes.
ValidateAfterFetch(i) ==
    /\ inv[i].pc = "validate"
    /\ active = i
    /\ LET decoded == decodeURIComponent(PlusToSpace(inv[i].rawKey))
           sourceKey == decoded.value
           accepted == sourceKeyPatternTest(sourceKey)
           keyParts == Split(sourceKey, "/")
           rawFilename == pathBasename(sourceKey, pathExtname(sourceKey))
           baseFilename == sanitizeFilename(rawFilename)
       IN  IF ~decoded.ok
               THEN inv' = [inv EXCEPT ![i].pc = "threw",
                                       ![i].thrown = Err("URIError", 0)]
           ELSE inv' = [inv EXCEPT ![i].pc = "fetching",
                                   ![i].sourceKey = sourceKey,
                                   ![i].verdict = IF accepted THEN "accepted" ELSE "rejected",
                                   ![i].uniqueKey = IF accepted THEN keyParts[2] ELSE <<>>,
                                   ![i].rawFilename = rawFilename,
                                   ![i].baseFilename = baseFilename,
                                   ![i].fetchCalled = TRUE]
    /\ active' = 0
    /\ UNCHANGED <<fsVars, credFile, nInvocations, probe>>

\* Lines 66-93: the key is decoded and tested against sourceKeyPattern; a
\* key that fails throws outside the try. An accepted key gives uniqueKey,
\* baseFilename and targetPrefix, the try is entered and s3.getObject is
\* called: the handler awaits it.
Validate(i) ==
    /\ inv[i].pc = "validate"
    /\ active = i
    /\ LET decoded == decodeURIComponent(PlusToSpace(inv[i].rawKey))
           sourceKey == decoded.value
           keyParts == Split(sourceKey, "/")
           rawFilename == pathBasename(sourceKey, pathExtname(sourceKey))
           baseFilename == sanitizeFilename(rawFilename)
       IN  IF ~decoded.ok
               THEN inv' = [inv EXCEPT ![i].pc = "threw",
                                       ![i].thrown = Err("URIError", 0)]
           ELSE IF ~sourceKeyPatternTest(sourceKey)
               THEN inv' = [inv EXCEPT ![i].pc = "threw",
                                       ![i].sourceKey = sourceKey,
                                       ![i].verdict = "rejected",
                                       ![i].thrown = Err("ValidationError", 0)]
           ELSE inv' = [inv EXCEPT ![i].pc = "fetching",
                                   ![i].sourceKey = sourceKey,
                                   ![i].verdict = "accepted",
                                   ![i].uniqueKey = keyParts[2],
                                   ![i].rawFilename = rawFilename,
                                   ![i].baseFilename = baseFilename,
                                   ![i].targetPrefix = TargetPrefix(keyParts[2], baseFilename),
                                   ![i].fetchCalled = TRUE]
    /\ active' = 0
    /\ UNCHANGED <<fsVars, credFile, nInvocations, probe>>

\* An error thrown inside the try: the catch logs and rethrows it, and the
\* finally block is next.
Caught(i, e) == [inv EXCEPT ![i].pc = "cleanup", ![i].error = e]

\* Lines 93-100: getObject settles. On success the body is written to
\* TEMP_INPUT_FILE and TEMP_OUTPUT_DIR is created unless it exists.
\* outcome: the object is missing or the transfer fails ("get"); the write
\* of the input file fails, leaving the file as it was or a partial one
\* ("write"); mkdirSync fails ("mkdir"). segs is the length of the video
\* that was fetched.
GetObjectDone(i) ==
    /\ inv[i].pc = "fetching"
    /\ active = 0
    /\ \E outcome \in {"ok", "get", "write", "mkdir"} : \E partial \in BOOLEAN :
       \E segs \in 1..MaxSegs :
        /\ outcome = "mkdir" => ~outDirExists
        /\ outcome # "write" => ~partial
        /\ outcome # "ok" => segs = 1
        /\ inputFile' = CASE outcome = "get" -> inputFile
                          [] outcome = "write" -> IF partial THEN inv[i].gen ELSE inputFile
                          [] OTHER -> inv[i].gen
        /\ outDirExists' = IF outcome = "ok" THEN TRUE ELSE outDirExists
        /\ inv' = CASE outcome = "ok" -> [inv EXCEPT ![i].pc = "loop",
                                                      ![i].videoSegs = segs]
                    [] outcome = "get" -> Caught(i, Err("FetchError", 0))
                    [] OTHER -> Caught(i, Err("FsError", 0))
    /\ active' = i
    /\ UNCHANGED <<outDirFiles, credFile, nInvocations, probe>>

\* The loop walking the ladder from its last profile to its first.
StartEncodeReversed(i) ==
    /\ inv[i].pc = "loop"
    /\ active = i
    /\ inv[i].encDone < Len(resolutions)
    /\ LET res == resolutions[Len(resolutions) - inv[i].encDone]
       IN  inv' = [inv EXCEPT ![i].pc = "encoding",
                              ![i].playlists = Append(@, PlaylistEntry(res)),
                              ![i].encInputs = Append(@, inputFile),
                              ![i].encRunning = inv[i].encDone + 1]
    /\ active' = 0
    /\ UNCHANGED <<fsVars, credFile, nInvocations, probe>>

\* Lines 110-126: the next profile of the ladder. Its entry is pushed to
\* playlists, the command is built and exec starts the encoder; the handler
\* awaits its exit.
StartEncode(i) ==
    /\ inv[i].pc = "loop"
    /\ active = i
    /\ inv[i].encDone < Len(resolutions)
    /\ LET res == resolutions[inv[i].encDone + 1]
       IN  inv' = [inv EXCEPT ![i].pc = "encoding",
                              ![i].playlists = Append(@, PlaylistEntry(res)),
                              ![i].encInputs = Append(@, inputFile),
                              ![i].encRunning = inv[i].encDone + 1]
    /\ active' = 0
    /\ UNCHANGED <<fsVars, credFile, nInvocations, probe>>

\* The files one encoder run leaves for a rendition after n segments.
EncoderFiles(res, n, gen) ==
    {[name |-> SegmentName(res, m), by |-> gen, text |-> <<>>] : m \in 0..(n - 1)}
    \cup (IF n > 0 THEN {[name |-> res.name \o DotM3u8, by |-> gen, text |-> <<>>]} ELSE {})

\* Writing files into a directory replaces the files of the same names.
WriteFiles(dir, new) == {f \in dir : \A g \in new : g.name # f.name} \cup new

\* Lines 126-141: the encoder exits. Exit zero: its playlist and all the
\* segments of the video are in the output directory, and the loop goes
\* on. An error: the n segments it wrote so far stay, the promise rejects,
\* the inner catch rethrows and the outer catch has the error.
EncodeDone(i) ==
    /\ inv[i].pc = "encoding"
    /\ active = 0
    /\ LET k == inv[i].encRunning
           res == resolutions[k]
       IN  \E ok \in BOOLEAN : \E n \in 0..inv[i].videoSegs :
            /\ ok => n = inv[i].videoSegs /\ outDirExists /\ inputFile # 0
            /\ n >= 1 => outDirExists
            /\ outDirFiles' = WriteFiles(outDirFiles, EncoderFiles(res, n, inv[i].gen))
            /\ inv' = IF ok
                          THEN [inv EXCEPT ![i].pc = "loop",
                                           ![i].encRunning = 0,
                                           ![i].encDone = k]
                          ELSE [Caught(i, Err("EncodeError", k)) EXCEPT ![i].encRunning = 0]
    /\ active' = i
    /\ UNCHANGED <<inputFile, outDirExists, credFile, nInvocations, probe>>

\* Lines 143-158: after the loop, master.m3u8 is written from playlists and
\* the output directory is listed. A failing write leaves no master file or
\* a truncated one. `listing` is what readdirSync returned, `files` the
\* part of it the upload loop has not reached yet.
WriteMaster(i) ==
    /\ inv[i].pc = "loop"
    /\ active = i
    /\ inv[i].encDone = Len(resolutions)
    /\ \E ok \in BOOLEAN : \E partial \in BOOLEAN :
        /\ ok => outDirExists /\ ~partial
        /\ partial => outDirExists
        /\ LET text == IF ok THEN MasterFileText(inv[i].playlists) ELSE <<>>
               master == [name |-> MasterName, by |-> inv[i].gen, text |-> text]
               dir == IF ok \/ partial THEN WriteFiles(outDirFiles, {master}) ELSE outDirFiles
           IN  /\ outDirFiles' = dir
               /\ inv' = IF ok
                             THEN [inv EXCEPT ![i].pc = "upload",
                                              ![i].masterWritten = TRUE,
                                              ![i].listing = {f.name : f \in dir},
                                              ![i].files = {f.name : f \in dir}]
                             ELSE Caught(i, Err("FsError", 0))
    /\ active' = i
    /\ UNCHANGED <<inputFile, outDirExists, credFile, nInvocations, probe>>

\* Lines 159-169: the next file of the listing; its key is
\* path.join(targetPrefix, file) and s3.upload is awaited. (The order of the
\* listing is the file system's: any file not yet taken may be next.)
StartUpload(i) ==
    /\ inv[i].pc = "upload"
    /\ active = i
    /\ \E file \in inv[i].files :
        inv' = [inv EXCEPT ![i].pc = "uploading",
                           ![i].cur = file,
                           ![i].files = @ \ {file}]
    /\ active' = 0
    /\ UNCHANGED <<fsVars, credFile, nInvocations, probe>>

\* The object key of a file of the output directory (line 161).
S3Key(targetPrefix, file) == pathJoin(targetPrefix, file)

\* The upload settles: the object is stored under its key with the file's
\* content, or the upload (or the read of the file) fails.
UploadDone(i) ==
    /\ inv[i].pc = "uploading"
    /\ active = 0
    /\ \E ok \in BOOLEAN :
        IF ok
            THEN \E f \in outDirFiles :
                    /\ f.name = inv[i].cur
                    /\ inv' = [inv EXCEPT
                                 ![i].pc = "upload",
                                 ![i].nUploads = @ + 1,
                                 ![i].uploaded = @ \cup
                                     {[key |-> S3Key(inv[i].targetPrefix, f.name),
                                       name |-> f.name, by |-> f.by]}]
            ELSE inv' = Caught(i, Err("UploadError", 0))
    /\ active' = i
    /\ UNCHANGED <<fsVars, credFile, nInvocations, probe>>

\* `${CLOUDFRONT_URL}/${uniqueKey}/${baseFilename}/master.m3u8`
MasterUrl(uniqueKey, baseFilename) ==
    CLOUDFRONT_URL \o <<"/">> \o uniqueKey \o <<"/">> \o baseFilename
        \o <<"/">> \o MasterName

\* Lines 174-182: every file is uploaded; the response is built and
\* publishToPubSub is awaited.
StartPublish(i) ==
    /\ inv[i].pc = "upload"
    /\ active = i
    /\ inv[i].files = {}
    /\ inv' = [inv EXCEPT ![i].pc = "publishing",
                          ![i].response =
                              [statusCode |-> 200,
                               uniqueKey |-> inv[i].uniqueKey,
                               masterPlaylist |->
                                   MasterUrl(inv[i].uniqueKey, inv[i].baseFilename)]]
    /\ active' = 0
    /\ UNCHANGED <<fsVars, credFile, nInvocations, probe>>

\* topic.publish settles: the message is published and the handler returns
\* the response (line 183), or publishToPubSub rethrows the error.
PublishDone(i) ==
    /\ inv[i].pc = "publishing"
    /\ active = 0
    /\ \E ok \in BOOLEAN :
        inv' = IF ok
                   THEN [inv EXCEPT ![i].pc = "cleanup",
                                    ![i].nPublished = @ + 1,
                                    ![i].publishedMsg = inv[i].response]
                   ELSE Caught(i, Err("PublishError", 0))
    /\ active' = i
    /\ UNCHANGED <<fsVars, credFile, nInvocations, probe>>

\* How a try/catch/finally completes: an error thrown by the finally block
\* is the one that leaves the function; otherwise the pending completion,
\* the rethrown error or the return, stands.
FinallyCompletion(pending, cleanupError) ==
    IF cleanupError # NoError THEN cleanupError ELSE pending

\* Lines 187-195, the finally block: the input file is unlinked if it
\* exists, then the output directory is removed if it exists. Either call
\* may throw (then what it was removing stays, and the rest of the block
\* is skipped); the handler then returns the response or throws.
Cleanup(i) ==
    /\ inv[i].pc = "cleanup"
    /\ active = i
    /\ \E unlinkOk \in BOOLEAN : \E rmOk \in BOOLEAN :
        LET unlinkThrows == inputFile # 0 /\ ~unlinkOk
            rmThrows == ~unlinkThrows /\ outDirExists /\ ~rmOk
            cleanupError == IF unlinkThrows THEN Err("CleanupError", 1)
                            ELSE IF rmThrows THEN Err("CleanupError", 2)
                            ELSE NoError
            thrown == FinallyCompletion(inv[i].error, cleanupError)
        IN  /\ inputFile' = IF unlinkThrows THEN inputFile ELSE 0
            /\ outDirExists' = IF unlinkThrows \/ rmThrows THEN outDirExists ELSE FALSE
            /\ outDirFiles' = IF unlinkThrows \/ rmThrows THEN outDirFiles ELSE {}
            /\ inv' = [inv EXCEPT
                         ![i].cleanupRan = TRUE,
                         ![i].thrown = thrown,
                         ![i].pc = IF thrown # NoError THEN "threw" ELSE "returned",
                         ![i].result = IF thrown # NoError THEN NoResponse
                                       ELSE inv[i].response]
    /\ active' = 0
    /\ UNCHANGED <<credFile, nInvocations, probe>>

Awaiting == {"fetching", "encoding", "uploading", "publishing"}

\* The platform ends the invocation at its deadline, while the handler
\* awaits: the process stops, nothing more of the handler runs, and /tmp
\* stays as it is for the next invocation of the execution environment.
Abort(i) ==
    /\ inv[i].pc \in Awaiting
    /\ inv' = [inv EXCEPT ![i].pc = "aborted", ![i].encRunning = 0]
    /\ active' = IF active = i THEN 0 ELSE active
    /\ UNCHANGED <<fsVars, credFile, nInvocations, probe>>

\* The outcome is handed to the platform and the call is over: its locals
\* are gone, and the process is free for the next event.
Settle(i) ==
    /\ inv[i].pc \in Terminal
    /\ active = 0
    /\ inv' = [inv EXCEPT ![i] = InvInit]
    /\ UNCHANGED <<active, fsVars, credFile, nInvocations, probe>>

Step(i) ==
    \/ Invoke(i)
    \/ Authenticate(i)
    \/ Validate(i)
    \/ GetObjectDone(i)
    \/ StartEncode(i)
    \/ EncodeDone(i)
    \/ WriteMaster(i)
    \/ StartUpload(i)
    \/ UploadDone(i)
    \/ StartPublish(i)
    \/ PublishDone(i)
    \/ Cleanup(i)
    \/ Abort(i)
    \/ Settle(i)

\* One execution environment serving its invocations one after another.
Next == \E i \in SeqInvs : Step(i)

Spec == Init /\ [][Next]_vars

\* ------------------------------------------- overlapping invocations
\* The handler called while an earlier call of the same process is still
\* pending at an await (line 62): both calls share the module's constants
\* TEMP_INPUT_FILE and TEMP_OUTPUT_DIR. The events carry the keys LaterKeys.
InvokeOverlapping(i) ==
    /\ inv[i].pc = "idle"
    /\ active = 0
    /\ nInvocations < MaxInvocations
    /\ \E key \in LaterKeys :
        inv' = [inv EXCEPT ![i] = [InvInit EXCEPT !.pc = "auth",
                                                  !.gen = nInvocations + 1,
                                                  !.rawKey = key]]
    /\ active' = i
    /\ nInvocations' = nInvocations + 1
    /\ UNCHANGED <<fsVars, credFile, probe>>

\* Invocation i is between the fetch and the finally block: the input file
\* and the output directory are the ones it works on.
HoldsLocalFiles(i) == inv[i].pc \in {"loop", "encoding", "upload", "uploading", "publishing"}

\* The overlaps that are explored: a state in which two pending calls both
\* hold the local files is reached, and the run is not followed beyond it.
OverlapExplored == Cardinality({i \in Invs : HoldsLocalFiles(i)}) <= 1

\* A call that has returned or thrown is settled before anything else
\* runs: its promise is resolved in the same turn of the event loop.
OverlapReady == OverlapExplored /\ \A j \in Invs : inv[j].pc \notin Terminal

OverlapStep(i) ==
    \/ OverlapReady /\ InvokeOverlapping(i)
    \/ OverlapReady /\ Authenticate(i)
    \/ OverlapReady /\ Validate(i)
    \/ OverlapReady /\ GetObjectDone(i)
    \/ OverlapReady /\ StartEncode(i)
    \/ OverlapReady /\ EncodeDone(i)
    \/ OverlapReady /\ WriteMaster(i)
    \/ OverlapReady /\ StartUpload(i)
    \/ OverlapReady /\ UploadDone(i)
    \/ OverlapReady /\ StartPublish(i)
    \/ OverlapReady /\ PublishDone(i)
    \/ OverlapReady /\ Cleanup(i)
    \/ Settle(i)

\* One process serving handler calls that may overlap at their awaits.
OverlapNext == \E i \in Invs : OverlapStep(i)

OverlapSpec == Init /\ [][OverlapNext]_vars

\* ------------------------------------- the sanitizer on its own
SanInit ==
    /\ HandlerInit
    /\ \E x \in SanInputs :
        probe = [pc |-> "drawn", x |-> x, once |-> <<>>, twice |-> <<>>]

\* sanitizeFilename(x)
SanApply ==
    /\ probe.pc = "drawn"
    /\ probe' = [probe EXCEPT !.pc = "once", !.once = sanitizeFilename(probe.x)]
    /\ UNCHANGED <<inv, active, nInvocations, fsVars, credFile>>

\* sanitizeFilename(sanitizeFilename(x))
SanAgain ==
    /\ probe.pc = "once"
    /\ probe' = [probe EXCEPT !.pc = "twice", !.twice = sanitizeFilename(probe.once)]
    /\ UNCHANGED <<inv, active, nInvocations, fsVars, credFile>>

SanNext == SanApply \/ SanAgain

SanSpec == SanInit /\ [][SanNext]_vars

\* ====================================================== the claims

Returned(i) == inv[i].pc = "returned"
Threw(i) == inv[i].pc = "threw"
\* The handler call has returned or thrown to its caller.
Ended(i) == Returned(i) \/ Threw(i)

\* The master playlist file of the output directory, if there is one.
MasterFiles == {f \in outDirFiles : f.name = MasterName}

Lines(text) == Split(text, "\n")

\* ---- C1
\* C1: for every terminal outcome of a handler invocation (a return, or a
\* failure in authentication, key validation, fetch, an encoder run, the
\* master write, an upload, the publish or the cleanup itself), neither
\* /tmp/input.mp4 nor /tmp/output/ exists when the invocation returns or
\* throws.
C1_NoLocalStateSurvives ==
    \A i \in Invs : Ended(i) => inputFile = 0 /\ ~outDirExists

\* ---- C2
\* C2: if the encoder run of profile k exits with an error, no encoder is
\* started for a later profile, no master playlist is written, nothing is
\* uploaded or published, and the invocation fails with the error of
\* profile k's encoder run.
C2_EncodeFailFast ==
    \A i \in Invs : inv[i].error.kind = "EncodeError" =>
        /\ Len(inv[i].playlists) = inv[i].error.detail
        /\ inv[i].encRunning = 0
        /\ ~inv[i].masterWritten
        /\ \A f \in MasterFiles : f.by # inv[i].gen
        /\ inv[i].nUploads = 0 /\ inv[i].uploaded = {}
        /\ inv[i].nPublished = 0
        /\ ~Returned(i)
        /\ Threw(i) => inv[i].thrown = inv[i].error

\* The part of C2 that the code keeps: after the encoder error of profile
\* k nothing more is encoded, written as master, uploaded or published, and
\* the invocation does not return a response.
EncodeFailureStopsThePipeline ==
    \A i \in Invs : inv[i].error.kind = "EncodeError" =>
        /\ Len(inv[i].playlists) = inv[i].error.detail
        /\ inv[i].encRunning = 0
        /\ ~inv[i].masterWritten
        /\ \A f \in MasterFiles : f.by # inv[i].gen
        /\ inv[i].nUploads = 0 /\ inv[i].uploaded = {}
        /\ inv[i].nPublished = 0
        /\ ~Returned(i)

\* ---- C3
\* The text "<width>x<height>" a profile declares.
DeclaredResolution(res) == DigitsOf(res.width) \o <<"x">> \o DigitsOf(res.height)

\* C3: the master playlist declares, for each rendition, a resolution equal
\* to the profile's width x height (1920x1080, 1280x720, 854x480).
C3_MasterDeclaresResolution ==
    \A i \in Invs : inv[i].masterWritten =>
        \A f \in MasterFiles : \A n \in 1..Len(resolutions) :
            /\ Len(Lines(f.text)) >= 2 * n + 1
            /\ EndsWith(Lines(f.text)[2 * n + 1],
                        ResolutionKey \o DeclaredResolution(resolutions[n]))

\* ---- C4
\* The bandwidths the claim names, in ladder order.
ExpectedBandwidth == <<5000000, 3000000, 1500000>>

\* C4: after a fully successful ladder the master playlist is the two-line
\* header followed, for each ladder profile in ladder order, by exactly one
\* stream-information line whose BANDWIDTH is the profile's bitrate in kbps
\* times 1000 (5000000, 3000000, 1500000) and, on the next line, the bare
\* filename <profileName>.m3u8.  The file is read as it stands from the
\* master write until the first upload completes; no step of the handler
\* rewrites it afterwards.
C4_MasterPlaylistLines ==
    \A i \in Invs : inv[i].masterWritten =>
        \A f \in MasterFiles :
            inv[i].nUploads = 0 =>
                LET lines == Lines(f.text)
                IN  /\ Len(lines) = 2 + 2 * Len(resolutions)
                    /\ lines[1] = <<"#", "E", "X", "T", "M", "3", "U">>
                    /\ lines[2] = <<"#", "E", "X", "T", "-", "X", "-", "V", "E", "R", "S",
                                    "I", "O", "N", ":", "3">>
                    /\ \A n \in 1..Len(resolutions) :
                        /\ StartsWith(lines[2 * n + 1],
                                      StreamInfPrefix \o DigitsOf(ExpectedBandwidth[n]) \o <<",">>)
                        /\ lines[2 * n + 2] = resolutions[n].name \o DotM3u8
                    /\ Cardinality({n \in 1..Len(lines) : StartsWith(lines[n], StreamInfPrefix)})
                           = Len(resolutions)

\* A full ladder has been encoded and its master playlist is on disk.
C4_Witness ==
    \E i \in Invs : inv[i].masterWritten /\ inv[i].encDone = Len(resolutions)
                    /\ inv[i].nUploads = 0
                    /\ \E f \in MasterFiles : f.by = inv[i].gen /\ f.text # <<>>

\* ---- C5
MyVideo1 == <<"M", "y", " ", "V", "i", "d", "e", "o", " ", "(", "1", ")">>
WeirdName == <<"_", "_", "w", "e", "i", "r", "d", "_", "_", "n", "a", "m", "e", "_">>

C6_SanitizeIdempotent ==
    probe.pc = "twice" => probe.twice = probe.once

\* ---- C7
\* C7: the result of sanitizeFilename holds only characters of
\* [A-Za-z0-9._-], no two consecutive hyphens, and neither begins nor ends
\* with a hyphen.
C7_SanitizedShape ==
    probe.pc \in {"once", "twice"} =>
        LET r == probe.once
        IN  /\ \A n \in 1..Len(r) : r[n] \in AllowedChar \cup {"-"}
            /\ \A n \in 1..(Len(r) - 1) : ~(r[n] = "-" /\ r[n + 1] = "-")
            /\ r # <<>> => r[1] # "-" /\ r[Len(r)] # "-"

\* ---- C8
\* The form source/<ownerKey>/<filename>.<ext>: three pieces between
\* slashes, the first "source", the second not empty, the third with a "."
\* that has a character before it and a character after it.
WellFormedKey(s) ==
    LET parts == Split(s, "/")
    IN  /\ Len(parts) = 3
        /\ parts[1] = <<"s", "o", "u", "r", "c", "e">>
        /\ parts[2] # <<>>
        /\ \E d \in 2..(Len(parts[3]) - 1) : parts[3][d] = "."

KeyVideo == <<"s", "o", "u", "r", "c", "e", "/", "a", "b", "c", "1", "2", "3", "/", "v", "i", "d", "e", "o", ".", "m", "p", "4">>
KeySubVideo == <<"s", "o", "u", "r", "c", "e", "/", "a", "b", "c", "1", "2", "3", "/", "s", "u", "b", "/", "v", "i", "d", "e", "o", ".", "m", "p", "4">>
KeyNoOwner == <<"s", "o", "u", "r", "c", "e", "/", "v", "i", "d", "e", "o", ".", "m", "p", "4">>

\* C8: a decoded source key is accepted if and only if it has the form
\* source/<ownerKey>/<filename>.<ext> (source/abc123/video.mp4 is accepted;
\* source/abc123/sub/video.mp4 and source/video.mp4 are rejected); a
\* rejected key makes the invocation fail with an error, and no encoder
\* run, upload or publish occurs in that invocation.
C8_KeyValidation ==
    \A i \in Invs : inv[i].verdict # "none" =>
        /\ inv[i].verdict = "accepted" <=> WellFormedKey(inv[i].sourceKey)
        /\ inv[i].sourceKey = KeyVideo => inv[i].verdict = "accepted"
        /\ inv[i].sourceKey \in {KeySubVideo, KeyNoOwner} => inv[i].verdict = "rejected"
        /\ inv[i].verdict = "rejected" =>
            /\ Threw(i) /\ inv[i].thrown # NoError
            /\ inv[i].playlists = <<>> /\ inv[i].encRunning = 0
            /\ inv[i].nUploads = 0 /\ inv[i].uploaded = {}
            /\ inv[i].nPublished = 0

\* The key source/abc123/sub/video.mp4 has been rejected.
C8_Witness ==
    \E i \in Invs : inv[i].sourceKey = KeySubVideo /\ inv[i].verdict = "rejected" /\ Threw(i)

C10_FirstErrorReported ==
    \A i \in Invs : Ended(i) /\ inv[i].error # NoError =>
        /\ inv[i].cleanupRan
        /\ Threw(i)
        /\ inv[i].thrown = inv[i].error

\* The part of C10 that the code keeps: a failed stage always ends in a
\* throw, never a returned response, and Cleanup has run by then.
FailedStageThrowsAfterCleanup ==
    \A i \in Invs : Ended(i) /\ inv[i].error # NoError =>
        inv[i].cleanupRan /\ Threw(i)

\* ---- C11
\* The owner segment of a decoded key source/<o>/<f>.<ext>.
OwnerOf(sourceKey) == Split(sourceKey, "/")[2]

\* hls/<o>/<b>/<filename>, spelled out as the text of the key.
NamespaceKey(o, b, filename) ==
    <<"h", "l", "s", "/">> \o o \o <<"/">> \o b \o <<"/">> \o filename

\* <base>/<o>/<b>/master.m3u8
NamespaceUrl(o, b) ==
    CLOUDFRONT_URL \o <<"/">> \o o \o <<"/">> \o b
        \o <<"/", "m", "a", "s", "t", "e", "r", ".", "m", "3", "u", "8">>

\* Path segments that path.join rewrites: the empty one, "." and "..".
PlainSegment(s) == s \notin {<<>>, <<".">>, <<".", ".">>}

\* What C11 says of a returned invocation i whose owner is o and whose
\* sanitized base name is b.
SuccessfulRunDelivered(i, o, b) ==
    /\ MasterName \in inv[i].listing
    /\ \A n \in 1..Len(resolutions) :
        /\ resolutions[n].name \o DotM3u8 \in inv[i].listing
        /\ SegmentName(resolutions[n], 0) \in inv[i].listing
    /\ \A name \in inv[i].listing :
        /\ Cardinality({u \in inv[i].uploaded : u.name = name}) = 1
        /\ \A u \in inv[i].uploaded : u.name = name => u.key = NamespaceKey(o, b, name)
    /\ inv[i].nUploads = Cardinality(inv[i].listing)
    /\ inv[i].nPublished = 1
    /\ inv[i].publishedMsg = inv[i].result
    /\ inv[i].result = [statusCode |-> 200, uniqueKey |-> o,
                        masterPlaylist |-> NamespaceUrl(o, b)]

\* The publish is started only when every listed file has been uploaded.
UploadsBeforePublish ==
    \A i \in Invs : inv[i].pc = "publishing" \/ inv[i].nPublished > 0 =>
        /\ inv[i].files = {}
        /\ inv[i].nUploads = Cardinality(inv[i].listing)
        /\ {u.name : u \in inv[i].uploaded} = inv[i].listing

\* C11: on a successful invocation for source/<o>/<f>.<ext> with sanitized
\* base name b, every file of the output directory after synthesis (the
\* segments, the three rendition playlists, master.m3u8) has been uploaded
\* exactly once to hls/<o>/<b>/<filename>, all uploads completed before
\* the single publish, and the published and returned message has
\* statusCode 200, uniqueKey o and masterPlaylist <base>/<o>/<b>/master.m3u8.
C11_SuccessfulRun ==
    /\ UploadsBeforePublish
    /\ \A i \in Invs : Returned(i) =>
        SuccessfulRunDelivered(i, OwnerOf(inv[i].sourceKey), inv[i].baseFilename)

\* The part of C11 that the code keeps: the same, for keys whose owner and
\* sanitized base name are segments that path.join leaves as they are.
SuccessfulRunPlainSegments ==
    /\ UploadsBeforePublish
    /\ \A i \in Invs :
        Returned(i) /\ PlainSegment(OwnerOf(inv[i].sourceKey))
                    /\ PlainSegment(inv[i].baseFilename) =>
            SuccessfulRunDelivered(i, OwnerOf(inv[i].sourceKey), inv[i].baseFilename)

\* ---- C12
\* After a failed upload: no upload is in flight and none is started again,
\* the failed file and the files behind it in the listing were never
\* uploaded, nothing is published, no response is returned, and every
\* upload that completed is still an object of the store.
UploadFailureStopsThePipeline ==
    \A i \in Invs : inv[i].error.kind = "UploadError" =>
        /\ inv[i].pc \in {"cleanup", "threw"}
        /\ \A u \in inv[i].uploaded : u.name # inv[i].cur /\ u.name \notin inv[i].files
        /\ inv[i].cur \in inv[i].listing /\ inv[i].files \subseteq inv[i].listing
        /\ Cardinality(inv[i].uploaded) = inv[i].nUploads
        /\ inv[i].nUploads < Cardinality(inv[i].listing)
        /\ inv[i].nPublished = 0 /\ inv[i].response = NoResponse
        /\ ~Returned(i)

\* C12: if the upload of a file fails, no upload is started for a file not
\* yet uploaded, nothing is published, the invocation fails with that
\* upload error, and the objects already uploaded stay in the store.
C12_UploadFailFast ==
    /\ UploadFailureStopsThePipeline
    /\ \A i \in Invs : inv[i].error.kind = "UploadError" /\ Ended(i) =>
        Threw(i) /\ inv[i].thrown = inv[i].error

\* ---- C13
\* A returned invocation has passed every stage, the publish included.
ReturnedOnlyAfterAllStages ==
    \A i \in Invs : Returned(i) =>
        /\ inv[i].error = NoError
        /\ inv[i].fetchCalled
        /\ inv[i].encDone = Len(resolutions)
        /\ inv[i].masterWritten
        /\ inv[i].nUploads = Cardinality(inv[i].listing)
        /\ inv[i].nPublished = 1
        /\ inv[i].result = inv[i].publishedMsg /\ inv[i].result # NoResponse

\* After a failed publish: no message was published, the publish is not
\* started again, the invocation does not return the completion message,
\* and when it ends it has thrown after Cleanup ran.
PublishFailureThrowsAfterCleanup ==
    \A i \in Invs : inv[i].error.kind = "PublishError" =>
        /\ inv[i].pc \in {"cleanup", "threw"}
        /\ inv[i].nPublished = 0
        /\ inv[i].result = NoResponse
        /\ Ended(i) => Threw(i) /\ inv[i].cleanupRan

\* C13: the invocation returns the completion message only if every stage
\* including the publish succeeded; if the publish fails the invocation
\* throws the publish error, never returns the message, Cleanup still
\* runs, and the publish is not retried.
C13_PublishFailure ==
    /\ ReturnedOnlyAfterAllStages
    /\ PublishFailureThrowsAfterCleanup
    /\ \A i \in Invs : inv[i].error.kind = "PublishError" /\ Ended(i) =>
        inv[i].thrown = inv[i].error

\* ---- C14
\* hls/<ownerKey>/<SanitizedBaseName>/ for the key of invocation i.
NamespacePrefix(i) ==
    <<"h", "l", "s", "/">> \o OwnerOf(inv[i].sourceKey) \o <<"/">>
        \o inv[i].baseFilename \o <<"/">>

\* C14: for every accepted source key (owner keys "." and ".." and
\* filenames whose sanitized base name is empty included), every object
\* key the invocation uploads begins with hls/<ownerKey>/<SanitizedBaseName>/.
C14_KeysUnderNamespace ==
    \A i \in Invs : inv[i].verdict = "accepted" =>
        \A u \in inv[i].uploaded : StartsWith(u.key, NamespacePrefix(i))

\* The part of C14 that the code keeps: the same, for keys whose owner and
\* sanitized base name are segments that path.join leaves as they are.
PlainKeysUnderNamespace ==
    \A i \in Invs :
        inv[i].verdict = "accepted" /\ PlainSegment(OwnerOf(inv[i].sourceKey))
                                    /\ PlainSegment(inv[i].baseFilename) =>
            \A u \in inv[i].uploaded : StartsWith(u.key, NamespacePrefix(i))

\* ---- C15
\* The ladder of invocation i is about to start or its first encoder runs.
LadderStarting(i) ==
    \/ inv[i].pc = "loop" /\ inv[i].encDone = 0
    \/ inv[i].pc = "encoding" /\ inv[i].encRunning = 1

\* C15: the encode ladder always starts against an empty output directory,
\* so every file an invocation uploads was produced by its own encoder
\* runs or master synthesis, for any sequence of invocations in the
\* execution environment, an earlier one aborted before its Cleanup
\* included.
C15_FreshOutputDirectory ==
    \A i \in Invs :
        /\ LadderStarting(i) => outDirExists /\ outDirFiles = {}
        /\ \A u \in inv[i].uploaded : u.by = inv[i].gen

\* ---- C16
\* All three profiles of invocation i have finished encoding without error.
LadderComplete(i) ==
    /\ inv[i].encDone = Len(resolutions)
    /\ inv[i].encRunning = 0
    /\ inv[i].error.kind # "EncodeError"

\* C16: the master playlist is written only after the encoder runs of all
\* three profiles have completed successfully: in every state of an
\* invocation where master.m3u8 exists locally or an object has been
\* uploaded, all three profiles have finished encoding without error.
C16_MasterAfterLadder ==
    \A i \in Invs :
        inv[i].pc # "idle" /\ (MasterFiles # {} \/ inv[i].uploaded # {}) =>
            LadderComplete(i)

\* The part of C16 that the code keeps: a master playlist written by the
\* invocation itself, or an upload of it, is there only after its three
\* encoder runs have completed successfully.
OwnMasterAfterLadder ==
    \A i \in Invs :
        /\ inv[i].pc # "idle"
        /\ \/ inv[i].masterWritten
           \/ inv[i].uploaded # {}
           \/ \E f \in MasterFiles : f.by = inv[i].gen
        => LadderComplete(i)

\* ---- C17
\* The declared order of the ladder.
LadderOrder == << <<"1", "0", "8", "0", "p">>, <<"7", "2", "0", "p">>, <<"4", "8", "0", "p">> >>

\* The encoder runs invocation i has started and has not seen exit: the
\* starts are the entries pushed to playlists, the successful exits are
\* counted by encDone, and a failed exit is the EncodeError.
EncodersNotExited(i) ==
    Len(inv[i].playlists) - inv[i].encDone
        - (IF inv[i].error.kind = "EncodeError" THEN 1 ELSE 0)

\* C17: within one invocation at most one encoder process runs at a time,
\* the encoder is started at most once per profile, and the starts follow
\* the declared order 1080p, 720p, 480p, each only after the previous run
\* has exited successfully.
C17_OneEncoderInOrder ==
    \A i \in Invs :
        LET started == Len(inv[i].playlists)
        IN  /\ started <= Len(LadderOrder)
            /\ Len(inv[i].encInputs) = started
            /\ \A n \in 1..started : inv[i].playlists[n].name = LadderOrder[n]
            /\ EncodersNotExited(i) \in {0, 1}
            /\ started > 0 => inv[i].encDone >= started - 1
            /\ inv[i].pc = "encoding" <=> inv[i].encRunning # 0
            /\ inv[i].encRunning # 0 =>
                /\ inv[i].encRunning = started
                /\ EncodersNotExited(i) = 1
            /\ EncodersNotExited(i) = 1 /\ inv[i].encRunning = 0 => inv[i].pc = "aborted"

\* The 480p encoder is running after the 1080p and 720p runs have exited
\* successfully.
C17_Witness ==
    \E i \in Invs : inv[i].pc = "encoding" /\ inv[i].encRunning = 3 /\ inv[i].encDone = 2

\* ---- C18
\* The invocations other than i that are in progress.
OthersRunning(i) == {j \in Invs \ {i} : inv[j].pc \notin {"idle"} \cup Terminal}

\* C18: the local input file and the local output directory are owned by
\* one invocation for its lifetime: when two invocations overlap in the
\* process, none reads, overwrites or deletes the input file or the
\* output files written by the other while the other is still running.
\* For an invocation between its fetch and its finally block: the input
\* file is the one it wrote, the directory and the playlists of its
\* finished encoder runs are there as it wrote them, its encoders read
\* its own input, and it uploads no file of another running invocation.
C18_ExclusiveLocalFiles ==
    \A i \in Invs : HoldsLocalFiles(i) =>
        /\ inputFile = inv[i].gen
        /\ outDirExists
        /\ \A n \in 1..inv[i].encDone :
            \E f \in outDirFiles : f.name = resolutions[n].name \o DotM3u8 /\ f.by = inv[i].gen
        /\ \A n \in 1..Len(inv[i].encInputs) : inv[i].encInputs[n] = inv[i].gen
        /\ \A u \in inv[i].uploaded : \A j \in OthersRunning(i) : u.by # inv[j].gen

\* ---- C19
KeyClip == <<"s", "o", "u", "r", "c", "e", "/", "u", "1", "/", "c", "l", "i", "p", ".", "m", "p", "4">>
KeyHyphen == <<"s", "o", "u", "r", "c", "e", "/", "u", "1", "/", "-", ".", "m", "p", "4">>

\* Invocation i has computed owner o, base name b, prefix hls/<o>/<b>/ and,
\* once its response is built, the master URL <base>/<o>/<b>/master.m3u8.
Computed(i, o, b) ==
    /\ inv[i].uniqueKey = o
    /\ inv[i].baseFilename = b
    /\ inv[i].targetPrefix = <<"h", "l", "s", "/">> \o o \o <<"/">> \o b \o <<"/">>
    /\ inv[i].response # NoResponse => inv[i].response.masterPlaylist = NamespaceUrl(o, b)

\* C19: the output key prefix and the master playlist URL are a function
\* of the source key alone: invocations given the same raw source key
\* compute the same owner key, sanitized base name, prefix and master URL,
\* whatever invocations came before. Every invocation given
\* source/u1/clip.mp4 computes u1, clip, hls/u1/clip/ and
\* <base>/u1/clip/master.m3u8, every invocation given source/u1/-.mp4
\* computes u1, the empty name, hls/u1// and <base>/u1//master.m3u8, and
\* for every key the prefix and the URL are built from the key's owner
\* segment and the base name computed from it.
C19_Deterministic ==
    \A i \in Invs : inv[i].verdict = "accepted" =>
        /\ inv[i].rawKey = KeyClip => Computed(i, <<"u", "1">>, <<"c", "l", "i", "p">>)
        /\ inv[i].rawKey = KeyHyphen => Computed(i, <<"u", "1">>, <<>>)
        /\ Computed(i, OwnerOf(inv[i].sourceKey), inv[i].baseFilename)

\* An invocation that follows an earlier one in the execution environment
\* has built its response for source/u1/clip.mp4.
C19_Witness ==
    \E i \in Invs : /\ inv[i].gen = 2 /\ inv[i].rawKey = KeyClip
                    /\ inv[i].response # NoResponse

\* ---- C20
SlashMaster == <<"/", "m", "a", "s", "t", "e", "r", ".", "m", "3", "u", "8">>

\* The path P of a URL <base>/<P>/master.m3u8.
UrlPath(url) == SubSeq(url, Len(CLOUDFRONT_URL) + 2, Len(url) - Len(SlashMaster))

\* The message invocation i published names a master playlist that i
\* uploaded under the same path: hls/<P>/master.m3u8.
PublishedMasterIsUploaded(i) ==
    LET url == inv[i].publishedMsg.masterPlaylist
    IN  /\ StartsWith(url, CLOUDFRONT_URL \o <<"/">>)
        /\ EndsWith(url, SlashMaster)
        /\ \E u \in inv[i].uploaded :
            /\ u.name = MasterName
            /\ u.key = <<"h", "l", "s", "/">> \o UrlPath(url) \o SlashMaster

\* C20: whenever a completion message is published with the URL
\* <base>/<P>/master.m3u8, the same invocation has uploaded the master
\* playlist to the key hls/<P>/master.m3u8 with the identical path P, for
\* every accepted key, those with an empty sanitized base name or a "." or
\* ".." owner included.
C20_UrlMatchesKey ==
    \A i \in Invs : inv[i].nPublished > 0 => PublishedMasterIsUploaded(i)

\* The part of C20 that the code keeps: the same, for keys whose owner and
\* sanitized base name are segments that path.join leaves as they are.
PlainUrlMatchesKey ==
    \A i \in Invs :
        inv[i].nPublished > 0 /\ PlainSegment(inv[i].uniqueKey)
                              /\ PlainSegment(inv[i].baseFilename) =>
            PublishedMasterIsUploaded(i)

====
